---------------------------- MODULE Spec2Model ----------------------------
(***************************************************************************)
(* Model of app.py, the RCPT-only e-mail verifier.                         *)
(*                                                                         *)
(* Python str values are sequences of one-character strings, so that the   *)
(* parsing, lower-casing and substring tests of the code are computed.     *)
(* Latencies are integers in tenths of a millisecond (rcpt_once rounds     *)
(* every latency to one decimal).                                          *)
(*                                                                         *)
(* Spec is the service: the three routes and verify_email.  FnSpec calls   *)
(* rcpt_once, multi_probe and mx_brand_from_host on their own.             *)
(***************************************************************************)
EXTENDS Integers, Sequences, FiniteSets, TLC

(***************************************************************************)
(* Tunables (app.py, "Tunables / Env").  Thresholds are in milliseconds.   *)
(***************************************************************************)
GOOGLE_THRESHOLD == 60
DEFAULT_THRESHOLD == 80
MAX_BULK == 1000

\* Largest repeat count a request (or the REPEATS variable) carries.
MaxRepeats == 2

(***************************************************************************)
(* Python values.                                                          *)
(***************************************************************************)
\* None in an Optional[str] position.
None == <<"None">>
\* Optional[int]: the repeats parameter.
NoRepeats == [given |-> FALSE, val |-> 0]
SomeRepeats(n) == [given |-> TRUE, val |-> n]

Max(a, b) == IF a >= b THEN a ELSE b
Abs(x) == IF x >= 0 THEN x ELSE 0 - x

RECURSIVE SumSeq(_)
SumSeq(s) == IF s = <<>> THEN 0 ELSE Head(s) + SumSeq(Tail(s))

\* any(accs)
AnyTrue(accs) == \E i \in DOMAIN accs : accs[i]

(***************************************************************************)
(* str methods.                                                            *)
(***************************************************************************)
UpperChars == <<"A","B","C","D","E","F","G","H","I","J","K","L","M",
                "N","O","P","Q","R","S","T","U","V","W","X","Y","Z">>
LowerChars == <<"a","b","c","d","e","f","g","h","i","j","k","l","m",
                "n","o","p","q","r","s","t","u","v","w","x","y","z">>

LowerChar(c) ==
    IF \E i \in DOMAIN UpperChars : UpperChars[i] = c
    THEN LowerChars[CHOOSE i \in DOMAIN UpperChars : UpperChars[i] = c]
    ELSE c

\* s.lower()
Lower(s) == [i \in DOMAIN s |-> LowerChar(s[i])]

RECURSIVE LStrip(_)
LStrip(s) == IF s # <<>> /\ Head(s) = " " THEN LStrip(Tail(s)) ELSE s
RECURSIVE RStrip(_)
RStrip(s) ==
    IF s # <<>> /\ s[Len(s)] = " " THEN RStrip(SubSeq(s, 1, Len(s) - 1)) ELSE s
\* s.strip()
Strip(s) == RStrip(LStrip(s))

\* needle in s
Contains(s, needle) ==
    \E i \in 1..(Len(s) - Len(needle) + 1) :
        SubSeq(s, i, i + Len(needle) - 1) = needle

\* s.endswith(suffix)
EndsWith(s, suffix) ==
    /\ Len(s) >= Len(suffix)
    /\ SubSeq(s, Len(s) - Len(suffix) + 1, Len(s)) = suffix

CountAt(s) == Cardinality({i \in DOMAIN s : s[i] = "@"})

\* s.split('@', 1)[1], for s containing '@'
AfterFirstAt(s) ==
    LET i == CHOOSE k \in DOMAIN s :
                 s[k] = "@" /\ \A j \in 1..(k - 1) : s[j] # "@"
    IN  SubSeq(s, i + 1, Len(s))

NoSpaces(s) == SelectSeq(s, LAMBDA c : c # " ")

(***************************************************************************)
(* get_domain.  email.utils.parseaddr, on a string of letters, dots,       *)
(* spaces and '@' (no display name, angle brackets, quotes or commas),     *)
(* returns an addr-spec containing '@' exactly when the string has one '@' *)
(* with something other than spaces after it; the part after the '@' is    *)
(* then the input's with the spaces removed.  Otherwise the returned       *)
(* address has no '@' and get_domain raises ValueError.                    *)
(***************************************************************************)
ParsedDomain(email) == NoSpaces(AfterFirstAt(email))

ParseaddrHasAt(email) ==
    /\ CountAt(email) = 1
    /\ ParsedDomain(email) # <<>>

get_domain_NoCheck(email) ==
    IF CountAt(email) = 0
    THEN [ok |-> TRUE, val |-> Strip(Lower(email))]
    ELSE IF ~ParseaddrHasAt(email)
    THEN [ok |-> FALSE, val |-> <<>>]
    ELSE [ok |-> TRUE, val |-> Strip(Lower(ParsedDomain(email)))]

get_domain(email) ==
    IF ~ParseaddrHasAt(email)
    THEN [ok |-> FALSE, val |-> <<>>]
    ELSE [ok |-> TRUE, val |-> Strip(Lower(ParsedDomain(email)))]

(***************************************************************************)
(* resolve_mx: the answer records sorted by preference (sorted() is        *)
(* stable), hosts without the trailing root dot; any resolver error gives  *)
(* the empty list.                                                         *)
(***************************************************************************)
RECURSIVE RStripDot(_)
RStripDot(h) ==
    IF h # <<>> /\ h[Len(h)] = "." THEN RStripDot(SubSeq(h, 1, Len(h) - 1)) ELSE h

RECURSIVE InsertByPref(_, _)
InsertByPref(r, sorted) ==
    IF sorted = <<>> THEN <<r>>
    ELSE IF r.preference < Head(sorted).preference
         THEN <<r>> \o sorted
         ELSE <<Head(sorted)>> \o InsertByPref(r, Tail(sorted))

RECURSIVE SortByPref(_)
SortByPref(recs) ==
    IF recs = <<>> THEN <<>>
    ELSE InsertByPref(recs[Len(recs)], SortByPref(SubSeq(recs, 1, Len(recs) - 1)))

resolve_mx_Fallback(dns) ==
    LET prefs_hosts == SortByPref(dns.answers)
    IN  IF dns.error THEN <<<<"l","o","c","a","l","h","o","s","t">>>>
        ELSE [i \in DOMAIN prefs_hosts |-> RStripDot(prefs_hosts[i].exchange)]

resolve_mx(dns) ==
    IF dns.error THEN <<>>
    ELSE LET prefs_hosts == SortByPref(dns.answers)
         IN  [i \in DOMAIN prefs_hosts |-> RStripDot(prefs_hosts[i].exchange)]

(***************************************************************************)
(* mx_brand_from_host                                                      *)
(***************************************************************************)
Str_aspmx == <<"a","s","p","m","x">>
Str_google == <<"g","o","o","g","l","e">>
Str_outlook == <<"o","u","t","l","o","o","k">>
Str_protection == <<"p","r","o","t","e","c","t","i","o","n">>
Str_microsoft == <<"m","i","c","r","o","s","o","f","t">>
Str_proofpoint == <<"p","r","o","o","f","p","o","i","n","t">>
Str_mimecast == <<"m","i","m","e","c","a","s","t">>
Str_zoho == <<"z","o","h","o">>
Str_other == <<"o","t","h","e","r">>

mx_brand_from_host_ZohoFirst(mx) ==
    LET h == Lower(IF mx = None THEN <<>> ELSE mx)
    IN  IF Contains(h, Str_zoho) THEN Str_zoho
        ELSE IF Contains(h, Str_aspmx) \/ Contains(h, Str_google) THEN Str_google
        ELSE IF Contains(h, Str_outlook) \/ Contains(h, Str_protection)
             THEN Str_microsoft
        ELSE IF Contains(h, Str_proofpoint) THEN Str_proofpoint
        ELSE IF Contains(h, Str_mimecast) THEN Str_mimecast
        ELSE Str_other
mx_brand_from_host(mx) ==
    LET h == Lower(IF mx = None THEN <<>> ELSE mx)
    IN  IF Contains(h, Str_aspmx) \/ Contains(h, Str_google) THEN Str_google
        ELSE IF Contains(h, Str_outlook) \/ Contains(h, Str_protection)
             THEN Str_microsoft
        ELSE IF Contains(h, Str_proofpoint) THEN Str_proofpoint
        ELSE IF Contains(h, Str_mimecast) THEN Str_mimecast
        ELSE IF Contains(h, Str_zoho) THEN Str_zoho
        ELSE Str_other

(***************************************************************************)
(* impossible_addr: a random hexadecimal token, the marker, a random four  *)
(* digit number, and the domain.                                           *)
(***************************************************************************)
Str_nope == <<"-","n","o","p","e","-">>

impossible_addr(domain, token, num) ==
    token \o Str_nope \o num \o <<"@">> \o domain

(***************************************************************************)
(* Rounding.  round(x, 1) of a value num/den (in tenths): the nearest      *)
(* integer; where num/den lies exactly halfway the float decides, so both  *)
(* neighbours are possible.                                                *)
(***************************************************************************)
Round1_Whole(num, den) == {10 * ((num + 5 * den) \div (10 * den))}
Round1(num, den) ==
    {q \in {num \div den, (num \div den) + 1} : 2 * Abs(q * den - num) <= den}

(***************************************************************************)
(* rcpt_once: the reply code and the measured round trip (raw, hundredths  *)
(* of a millisecond) of one RCPT command.  lat is round(latency, 1).       *)
(***************************************************************************)
rcpt_once_Only2xx(code, lat) ==
    [accepted |-> (200 <= code /\ code < 300), latency |-> lat, code |-> code]
rcpt_once(code, lat) ==
    [accepted |-> ((200 <= code /\ code < 300) \/ code \in {451, 452}),
     latency  |-> lat,
     code     |-> code]

(***************************************************************************)
(* The timing rule of verify_email (step 3).  Means are in tenths of a     *)
(* millisecond, thresholds in milliseconds; both sides are doubled so that *)
(* i_mean = (F1_mean + F2_mean) / 2.0 needs no fraction.                   *)
(***************************************************************************)
threshold(brand) ==
    IF brand = Str_google THEN GOOGLE_THRESHOLD ELSE DEFAULT_THRESHOLD

abs_delta2(T_mean, F1_mean, F2_mean) == Abs(2 * T_mean - (F1_mean + F2_mean))

is_valid_Strict(T_mean, F1_mean, F2_mean, brand) ==
    abs_delta2(T_mean, F1_mean, F2_mean) > 2 * 10 * threshold(brand)

is_valid(T_mean, F1_mean, F2_mean, brand) ==
    abs_delta2(T_mean, F1_mean, F2_mean) >= 2 * 10 * threshold(brand)

\* VerifyResponse(...).  Line 40 of app.py, which is meant to declare the
\* "catch-all" field, is not valid Python; the record has the field every
\* constructor call passes.
VerifyResponse(email, domain, mx_host, mx_brand, result, catch_all, deliverability) ==
    [email |-> email, domain |-> domain, mx_host |-> mx_host, mx_brand |-> mx_brand,
     result |-> result, catch_all |-> catch_all, deliverability |-> deliverability]

(***************************************************************************)
(* Inputs.                                                                 *)
(***************************************************************************)
Email_ok == <<"u","@","D",".","i","o">>
Email_ok2 == <<"v","@","d",".","i","o">>
Email_noat == <<"u","d",".","i","o">>
Email_noat2 == <<"U"," ","d">>
Email_nodomain == <<"u","@">>
Email_nolocal == <<"@","d",".","i","o">>
Email_twoat == <<"u","@","d","@","d">>

\* What pydantic's EmailStr lets through to /verify and /bulk.
ValidEmails == {Email_ok}

\* Request bodies of /bulk.
BulkLists == {<<>>, <<Email_ok>>, <<Email_ok, Email_ok2>>}

\* Uploads of /bulk/csv: the file name and the rows csv.reader yields.
Str_csv == <<".","c","s","v">>
Str_email == <<"e","m","a","i","l">>
CsvFiles ==
    { [filename |-> <<"a",".","C","S","V">>,
       rows |-> << <<<<"E","m","a","i","l">>>>, <<>>,
                   <<<<" ","u","@","D",".","i","o"," ">>, <<"x">>>>,
                   <<Email_noat>> >>],
      [filename |-> <<"a",".","c","s","v">>,
       rows |-> << <<Email_nodomain>>, <<Email_noat2>>, <<Email_nolocal>> >>],
      [filename |-> <<"a",".","c","s","v">>,
       rows |-> << <<Email_twoat>>, <<Email_ok2>> >>],
      [filename |-> <<"a",".","c","s","v">>, rows |-> << <<Str_email>>, <<>> >>],
      [filename |-> <<"a",".","t","x","t">>, rows |-> << <<Email_ok>> >>] }

\* The repeats parameter of a request: of /verify, and of the bulk routes.
RepeatInputs == {NoRepeats} \cup {SomeRepeats(n) : n \in 0..MaxRepeats}
BulkRepeatInputs == {NoRepeats}

\* Values of the REPEATS environment variable.
DefaultRepeatsValues == {0, 1}

\* MX records a resolver may answer with.
Host_google == <<"A","S","P","M","X",".","L",".">>
Host_plain == <<"m","x",".","d",".","i","o",".">>
MX(preference, exchange) == [preference |-> preference, exchange |-> exchange]
DnsAnswers ==
    { <<MX(10, Host_google)>>,
      <<MX(20, Host_plain), MX(10, Host_google)>>,
      <<MX(10, Host_plain), MX(10, Host_google)>> }
DnsOutcomes ==
    {[error |-> TRUE, answers |-> <<>>]}
        \cup {[error |-> FALSE, answers |-> a] : a \in DnsAnswers}

\* Reply codes of RCPT and round trips (hundredths of a millisecond).
ReplyCodes == {250, 451, 450, 550}
RawLatencies == {3998, 12004}

\* Random parts of impossible_addr.
Tokens == {<<"0","a">>, <<"f","7">>}
Nums == {<<"1","0","0","0">>}

(***************************************************************************)
(* State.                                                                  *)
(***************************************************************************)
VARIABLES
    DEFAULT_REPEATS,  \* the tunable read from the environment at start
    route,            \* the route handling the request, "none" before it
    emails,           \* the addresses of the request
    repeats,          \* the repeats parameter of the request
    idx,              \* loop position of verify_bulk / verify_bulk_csv
    out,              \* the out list of verify_bulk / verify_bulk_csv
    response,         \* the HTTP response, status 0 while none
    vpc,              \* position inside verify_email
    fr,               \* locals of verify_email
    mp,               \* locals of multi_probe
    sock,             \* the socket of srv: "none", "open", "closed"
    openSockets,      \* sockets opened by the process and not closed
    outcome,          \* how the body of verify_email completed
    net,              \* calls on the network made by this verify_email
    fn                \* a helper called on its own: its arguments and result

vars == <<DEFAULT_REPEATS, route, emails, repeats, idx, out, response,
          vpc, fr, mp, sock, openSockets, outcome, net, fn>>

NoResponse == VerifyResponse(None, None, None, None, "none", FALSE, "none")

NoFrame ==
    [email |-> None, repeats |-> NoRepeats, domain |-> None, mx_list |-> <<>>,
     mx |-> None, brand |-> None, reps |-> 0,
     T_acc |-> FALSE, T_mean |-> 0,
     F1 |-> None, F1_acc |-> FALSE, F1_mean |-> 0,
     F2 |-> None, F2_acc |-> FALSE, F2_mean |-> 0]

NoProbe == [addr |-> None, n |-> 0, lats |-> <<>>, accs |-> <<>>]
NewProbe(addr, n) == [addr |-> addr, n |-> n, lats |-> <<>>, accs |-> <<>>]

\* No helper is called on its own while the routes run.
NoCall == [name |-> "none", args |-> <<>>, ret |-> <<>>, done |-> FALSE]

NoOutcome == [kind |-> "none", val |-> NoResponse]
Returns(r) == [kind |-> "return", val |-> r]
Raises == [kind |-> "raise", val |-> NoResponse]

Ev(op, arg, reply) == [op |-> op, arg |-> arg, reply |-> reply]

\* The result of every terminal failure.
Failure(email, domain, mx, brand) ==
    VerifyResponse(email, domain, mx, brand, "invalid", FALSE, "undeliverable")

Init ==
    /\ DEFAULT_REPEATS \in DefaultRepeatsValues
    /\ route = "none"
    /\ emails = <<>>
    /\ repeats = NoRepeats
    /\ idx = 0
    /\ out = <<>>
    /\ response = [status |-> 0, body |-> <<>>]
    /\ vpc = "none"
    /\ fr = NoFrame
    /\ mp = NoProbe
    /\ sock = "none"
    /\ openSockets = 0
    /\ outcome = NoOutcome
    /\ net = <<>>
    /\ fn = NoCall

\* A call of verify_email(email, repeats).
Call(email, reps) ==
    /\ vpc' = "get_domain"
    /\ fr' = [NoFrame EXCEPT !.email = email, !.repeats = reps]
    /\ mp' = NoProbe
    /\ sock' = "none"
    /\ outcome' = NoOutcome
    /\ net' = <<>>

(***************************************************************************)
(* The SMTP library (smtplib).  A command returns the server's reply, also *)
(* when the reply is a rejection ("rejected": mail, ehlo and rcpt return   *)
(* the (code, message) pair and do not raise on it), or raises because the *)
(* connection failed ("disconnect": the library has then closed the        *)
(* socket).  A command on a closed socket raises without sending.  rcpt    *)
(* may also raise before it sends anything ("error": the address cannot be *)
(* encoded), leaving the socket as it was.                                 *)
(***************************************************************************)
Str_ehlo == <<"p","r","o","b","e",".","l","o","c","a","l">>
Sender_empty == <<"<",">">>
Sender_placeholder ==
    <<"<","p","r","o","b","e","@","p","r","o","b","e",".","l","o","c","a","l",">">>

CommandOutcomes(sk) ==
    IF sk = "open" THEN {"ok", "rejected", "disconnect"} ELSE {"disconnect"}

SockAfter_Leak(sk, o) == sk
SockAfter(sk, o) == IF o = "disconnect" THEN "closed" ELSE sk

OpenAfter(sk, o, n) == IF sk = "open" /\ o = "disconnect" THEN n - 1 ELSE n

(***************************************************************************)
(* verify_email                                                            *)
(***************************************************************************)
\* try: domain = get_domain(email) / except: return the bare failure
verify_email_get_domain ==
    /\ vpc = "get_domain"
    /\ LET d == get_domain(fr.email)
       IN  IF ~d.ok
           THEN /\ outcome' = Returns(Failure(fr.email, None, None, None))
                /\ vpc' = "done"
                /\ fr' = fr
           ELSE /\ fr' = [fr EXCEPT !.domain = d.val]
                /\ vpc' = "resolve_mx"
                /\ outcome' = outcome
    /\ UNCHANGED <<fn, DEFAULT_REPEATS, route, emails, repeats, idx, out, response,
                   mp, sock, openSockets, net>>

\* mx_list = resolve_mx(domain); if not mx_list: return ...; mx, brand, reps
verify_email_resolve_mx ==
    /\ vpc = "resolve_mx"
    /\ \E dns \in DnsOutcomes :
         LET mx_list == resolve_mx(dns)
         IN  /\ net' = Append(net, Ev("DNS", fr.domain,
                                      IF dns.error THEN "error" ELSE "ok"))
             /\ IF mx_list = <<>>
                THEN /\ outcome' = Returns(Failure(fr.email, fr.domain, None, None))
                     /\ vpc' = "done"
                     /\ fr' = fr
                ELSE /\ fr' = [fr EXCEPT
                                 !.mx_list = mx_list,
                                 !.mx = mx_list[1],
                                 !.brand = mx_brand_from_host(mx_list[1]),
                                 !.reps = IF fr.repeats.given
                                          THEN Max(1, fr.repeats.val)
                                          ELSE DEFAULT_REPEATS]
                     /\ vpc' = "connect"
                     /\ outcome' = outcome
    /\ UNCHANGED <<fn, DEFAULT_REPEATS, route, emails, repeats, idx, out, response,
                   mp, sock, openSockets>>

\* Step 1, target not accepted.
Step1Response(f) == Failure(f.email, f.domain, f.mx, f.brand)

\* Step 2, fake 1 not accepted: non-catchall, the target was accepted => valid
Step2Response_CatchAll(f) ==
    VerifyResponse(f.email, f.domain, f.mx, f.brand, "valid", TRUE, "deliverable")
Step2Response_Invalid(f) == Failure(f.email, f.domain, f.mx, f.brand)
Step2Response(f) ==
    VerifyResponse(f.email, f.domain, f.mx, f.brand, "valid", FALSE, "deliverable")

\* Step 3, the timing verdict; catch-all is True in both outcomes.
Step3Response_Deliverable(f, valid) ==
    VerifyResponse(f.email, f.domain, f.mx, f.brand,
                   IF valid THEN "valid" ELSE "invalid", TRUE, "deliverable")
Step3Response(f, valid) ==
    VerifyResponse(f.email, f.domain, f.mx, f.brand,
                   IF valid THEN "valid" ELSE "invalid",
                   TRUE,
                   IF valid THEN "deliverable" ELSE "undeliverable")

\* multi_probe: for _ in range(max(1, n))
LoopTurns_Extra(n) == Max(1, n) + 1
LoopTurns(n) == Max(1, n)

\* finally: where srv.quit() leaves verify_email: to srv.close() when it
\* raised, else out of the function.
AfterQuit_NoClose(o) == "done"
AfterQuit(o) == IF o = "disconnect" THEN "close" ELSE "done"

\* The except branch around _smtp_open.
OpenFailed_NoMx ==
    /\ outcome' = Returns(Failure(fr.email, fr.domain, None, None))
    /\ vpc' = "done"
OpenFailed ==
    /\ outcome' = Returns(Failure(fr.email, fr.domain, fr.mx, fr.brand))
    /\ vpc' = "done"

\* _smtp_open: srv = smtplib.SMTP(mx_host, 25, timeout=timeout)
smtp_open_connect ==
    /\ vpc = "connect"
    /\ \E o \in {"ok", "fail"} :
         /\ net' = Append(net, Ev("CONNECT", fr.mx, o))
         /\ IF o = "ok"
            THEN /\ sock' = "open"
                 /\ openSockets' = openSockets + 1
                 /\ vpc' = "ehlo"
                 /\ outcome' = outcome
            ELSE /\ OpenFailed
                 /\ UNCHANGED <<sock, openSockets>>
    /\ UNCHANGED <<fn, DEFAULT_REPEATS, route, emails, repeats, idx, out, response,
                   fr, mp>>

\* _smtp_open: srv.ehlo("probe.local"); the reply is not looked at
smtp_open_ehlo ==
    /\ vpc = "ehlo"
    /\ \E o \in CommandOutcomes(sock) :
         /\ net' = Append(net, Ev("EHLO", Str_ehlo,
                                  IF o = "disconnect" THEN o ELSE "reply"))
         /\ sock' = SockAfter(sock, o)
         /\ openSockets' = OpenAfter(sock, o, openSockets)
         /\ IF o = "disconnect"
            THEN OpenFailed
            ELSE vpc' = "mail1" /\ outcome' = outcome
    /\ UNCHANGED <<fn, DEFAULT_REPEATS, route, emails, repeats, idx, out, response,
                   fr, mp>>

\* _smtp_open: try: srv.mail("<>"); on return the session is handed out
smtp_open_mail1 ==
    /\ vpc = "mail1"
    /\ \E o \in CommandOutcomes(sock) :
         /\ net' = Append(net, Ev("MAIL", Sender_empty, o))
         /\ sock' = SockAfter(sock, o)
         /\ openSockets' = OpenAfter(sock, o, openSockets)
         /\ IF o = "disconnect"
            THEN vpc' = "mail2" /\ mp' = mp
            ELSE vpc' = "target" /\ mp' = NewProbe(fr.email, fr.reps)
    /\ UNCHANGED <<fn, DEFAULT_REPEATS, route, emails, repeats, idx, out, response,
                   fr, outcome>>

\* _smtp_open: except Exception: srv.mail("<probe@probe.local>")
smtp_open_mail2 ==
    /\ vpc = "mail2"
    /\ \E o \in CommandOutcomes(sock) :
         /\ net' = Append(net, Ev("MAIL", Sender_placeholder, o))
         /\ sock' = SockAfter(sock, o)
         /\ openSockets' = OpenAfter(sock, o, openSockets)
         /\ IF o = "disconnect"
            THEN OpenFailed /\ mp' = mp
            ELSE /\ vpc' = "target"
                 /\ mp' = NewProbe(fr.email, fr.reps)
                 /\ outcome' = outcome
    /\ UNCHANGED <<fn, DEFAULT_REPEATS, route, emails, repeats, idx, out, response, fr>>

\* multi_probe: one turn of the loop, rcpt_once and the jitter sleep.  An
\* exception of srv.rcpt leaves multi_probe and the try body of verify_email.
multi_probe_iter ==
    /\ vpc \in {"target", "fake1", "fake2"}
    /\ Len(mp.lats) < LoopTurns(mp.n)
    /\ \E o \in (CommandOutcomes(sock) \ {"rejected"}) \cup {"error"} :
         IF o = "ok"
         THEN \E code \in ReplyCodes, raw \in RawLatencies :
                \E lat \in Round1(raw, 10) :
                  LET r == rcpt_once(code, lat)
                  IN  /\ mp' = [mp EXCEPT !.lats = Append(@, r.latency),
                                          !.accs = Append(@, r.accepted)]
                      /\ net' = net \o <<Ev("RCPT", mp.addr, "reply")>>
                                    \o (IF mp.n > 1
                                        THEN <<Ev("SLEEP", None, "ok")>>
                                        ELSE <<>>)
                      /\ UNCHANGED <<vpc, sock, openSockets, outcome>>
         ELSE /\ net' = Append(net, Ev("RCPT", mp.addr, o))
              /\ sock' = SockAfter(sock, o)
              /\ openSockets' = OpenAfter(sock, o, openSockets)
              /\ outcome' = Raises
              /\ vpc' = "quit"
              /\ mp' = mp
    /\ UNCHANGED <<fn, DEFAULT_REPEATS, route, emails, repeats, idx, out, response, fr>>

\* multi_probe: accepted_any, mean_lat of a finished loop
ProbeDone == Len(mp.lats) = LoopTurns(mp.n)
accepted_any_All == \A i \in DOMAIN mp.accs : mp.accs[i]
accepted_any == AnyTrue(mp.accs)
mean_lats == Round1(SumSeq(mp.lats), Len(mp.lats))

\* Step 1: T_acc, T_mean = multi_probe(srv, email, reps); if not T_acc: return
verify_email_step1 ==
    /\ vpc = "target"
    /\ ProbeDone
    /\ \E mean_lat \in mean_lats, token \in Tokens, num \in Nums :
         IF ~accepted_any
         THEN /\ fr' = [fr EXCEPT !.T_acc = FALSE, !.T_mean = mean_lat]
              /\ outcome' = Returns(Step1Response(fr))
              /\ vpc' = "quit"
              /\ mp' = NoProbe
         ELSE LET F1 == impossible_addr(fr.domain, token, num)
              IN  /\ fr' = [fr EXCEPT !.T_acc = TRUE, !.T_mean = mean_lat,
                                      !.F1 = F1]
                  /\ mp' = NewProbe(F1, fr.reps)
                  /\ vpc' = "fake1"
                  /\ outcome' = outcome
    /\ UNCHANGED <<fn, DEFAULT_REPEATS, route, emails, repeats, idx, out, response,
                   sock, openSockets, net>>

\* Step 2: F1_acc, F1_mean = multi_probe(srv, F1, reps); if not F1_acc: return
verify_email_step2 ==
    /\ vpc = "fake1"
    /\ ProbeDone
    /\ \E mean_lat \in mean_lats, token \in Tokens, num \in Nums :
         IF ~accepted_any
         THEN /\ fr' = [fr EXCEPT !.F1_acc = FALSE, !.F1_mean = mean_lat]
              /\ outcome' = Returns(Step2Response(fr))
              /\ vpc' = "quit"
              /\ mp' = NoProbe
         ELSE LET F2 == impossible_addr(fr.domain, token, num)
              IN  /\ fr' = [fr EXCEPT !.F1_acc = TRUE, !.F1_mean = mean_lat,
                                      !.F2 = F2]
                  /\ mp' = NewProbe(F2, fr.reps)
                  /\ vpc' = "fake2"
                  /\ outcome' = outcome
    /\ UNCHANGED <<fn, DEFAULT_REPEATS, route, emails, repeats, idx, out, response,
                   sock, openSockets, net>>

\* Step 3: F2_acc, F2_mean = multi_probe(srv, F2, reps); the timing verdict
verify_email_step3 ==
    /\ vpc = "fake2"
    /\ ProbeDone
    /\ \E mean_lat \in mean_lats :
         LET valid == is_valid(fr.T_mean, fr.F1_mean, mean_lat, fr.brand)
         IN  /\ fr' = [fr EXCEPT !.F2_acc = accepted_any, !.F2_mean = mean_lat]
             /\ outcome' = Returns(Step3Response(fr, valid))
             /\ vpc' = "quit"
             /\ mp' = NoProbe
    /\ UNCHANGED <<fn, DEFAULT_REPEATS, route, emails, repeats, idx, out, response,
                   sock, openSockets, net>>

\* finally: try: srv.quit().  quit closes the socket once the reply is read.
verify_email_quit_Skip ==
    /\ vpc = "quit"
    /\ vpc' = "done"
    /\ UNCHANGED <<fn, DEFAULT_REPEATS, route, emails, repeats, idx, out, response,
                   fr, mp, sock, openSockets, outcome, net>>
verify_email_quit ==
    /\ vpc = "quit"
    /\ \E o \in CommandOutcomes(sock) :
         /\ net' = Append(net, Ev("QUIT", None,
                                  IF o = "disconnect" THEN o ELSE "reply"))
         /\ sock' = IF o = "disconnect" THEN SockAfter(sock, o) ELSE "closed"
         /\ openSockets' = IF sock = "open" THEN openSockets - 1 ELSE openSockets
         /\ vpc' = AfterQuit(o)
    /\ UNCHANGED <<fn, DEFAULT_REPEATS, route, emails, repeats, idx, out, response,
                   fr, mp, outcome>>

\* finally: except Exception: try: srv.close() except Exception: pass
verify_email_close ==
    /\ vpc = "close"
    /\ \E o \in {"ok", "error"} :
         /\ net' = Append(net, Ev("CLOSE", None, "called"))
         /\ sock' = "closed"
         /\ openSockets' = IF sock = "open" THEN openSockets - 1 ELSE openSockets
         /\ vpc' = "done"
    /\ UNCHANGED <<fn, DEFAULT_REPEATS, route, emails, repeats, idx, out, response,
                   fr, mp, outcome>>

(***************************************************************************)
(* Routes                                                                  *)
(***************************************************************************)
Respond(status, body) == response' = [status |-> status, body |-> body]

\* POST /verify: return verify_email(str(email), repeats=repeats)
verify_single ==
    /\ route = "none"
    /\ \E email \in ValidEmails, r \in RepeatInputs :
         /\ route' = "/verify"
         /\ emails' = <<email>>
         /\ repeats' = r
         /\ idx' = 1
         /\ Call(email, r)
    /\ UNCHANGED <<fn, DEFAULT_REPEATS, out, response, openSockets>>

\* verify_single has no handler of its own: what verify_email returns is the
\* response, what it raises leaves the route (the framework answers 500).
verify_single_return ==
    /\ route = "/verify"
    /\ vpc = "done"
    /\ IF outcome.kind = "return"
       THEN Respond(200, <<outcome.val>>)
       ELSE Respond(500, <<>>)
    /\ vpc' = "returned"
    /\ UNCHANGED <<fn, DEFAULT_REPEATS, route, emails, repeats, idx, out,
                   fr, mp, sock, openSockets, outcome, net>>

\* The checks of verify_bulk / verify_bulk_csv on the list, then the first
\* turn of "for e in emails".
StartLoop(list, r) ==
    /\ emails' = list
    /\ repeats' = r
    /\ IF list = <<>>
       THEN /\ Respond(400, <<>>)
            /\ UNCHANGED <<idx, vpc, fr, mp, sock, outcome, net>>
       ELSE IF Len(list) > MAX_BULK
       THEN /\ Respond(413, <<>>)
            /\ UNCHANGED <<idx, vpc, fr, mp, sock, outcome, net>>
       ELSE /\ idx' = 1
            /\ Call(list[1], r)
            /\ response' = response

\* One turn of the loop ends: out.append(verify_email(...)), or the fallback
\* result when it raised; then the next turn, or return out.
LoopTurn_Abort ==
    /\ vpc = "done"
    /\ IF outcome.kind = "return"
       THEN /\ out' = Append(out, outcome.val)
            /\ IF idx < Len(emails)
               THEN /\ idx' = idx + 1
                    /\ Call(emails[idx + 1], repeats)
                    /\ response' = response
               ELSE /\ Respond(200, out')
                    /\ vpc' = "returned"
                    /\ UNCHANGED <<idx, fr, mp, sock, outcome, net>>
       ELSE /\ Respond(500, <<>>)
            /\ vpc' = "returned"
            /\ UNCHANGED <<out, idx, fr, mp, sock, outcome, net>>
    /\ UNCHANGED <<fn, DEFAULT_REPEATS, route, emails, repeats, openSockets>>
LoopTurn ==
    /\ vpc = "done"
    /\ out' = Append(out, IF outcome.kind = "return"
                          THEN outcome.val
                          ELSE Failure(emails[idx], None, None, None))
    /\ IF idx < Len(emails)
       THEN /\ idx' = idx + 1
            /\ Call(emails[idx + 1], repeats)
            /\ response' = response
       ELSE /\ Respond(200, out')
            /\ vpc' = "returned"
            /\ UNCHANGED <<idx, fr, mp, sock, outcome, net>>
    /\ UNCHANGED <<fn, DEFAULT_REPEATS, route, emails, repeats, openSockets>>

\* POST /bulk
verify_bulk ==
    /\ route = "none"
    /\ \E list \in BulkLists, r \in BulkRepeatInputs :
         /\ route' = "/bulk"
         /\ StartLoop(list, r)
    /\ UNCHANGED <<fn, DEFAULT_REPEATS, out, openSockets>>

verify_bulk_loop ==
    /\ route = "/bulk"
    /\ LoopTurn

\* verify_bulk_csv: the first column of every non-empty row, stripped, the
\* header cell "email" skipped.
RECURSIVE CsvEmails(_)
CsvEmails(rows) ==
    IF rows = <<>> THEN <<>>
    ELSE LET row == Head(rows)
             val == Strip(row[1])
         IN  IF row = <<>> THEN CsvEmails(Tail(rows))
             ELSE IF Lower(val) = Str_email THEN CsvEmails(Tail(rows))
             ELSE <<val>> \o CsvEmails(Tail(rows))

\* POST /bulk/csv
verify_bulk_csv ==
    /\ route = "none"
    /\ \E file \in CsvFiles, r \in BulkRepeatInputs :
         /\ route' = "/bulk/csv"
         /\ IF ~EndsWith(Lower(file.filename), Str_csv)
            THEN /\ Respond(400, <<>>)
                 /\ UNCHANGED <<emails, repeats, idx, vpc, fr, mp, sock,
                                outcome, net>>
            ELSE StartLoop(CsvEmails(file.rows), r)
    /\ UNCHANGED <<fn, DEFAULT_REPEATS, out, openSockets>>

verify_bulk_csv_loop ==
    /\ route = "/bulk/csv"
    /\ LoopTurn

Next ==
    \/ verify_single
    \/ verify_single_return
    \/ verify_bulk
    \/ verify_bulk_loop
    \/ verify_bulk_csv
    \/ verify_bulk_csv_loop
    \/ verify_email_get_domain
    \/ verify_email_resolve_mx
    \/ smtp_open_connect
    \/ smtp_open_ehlo
    \/ smtp_open_mail1
    \/ smtp_open_mail2
    \/ multi_probe_iter
    \/ verify_email_step1
    \/ verify_email_step2
    \/ verify_email_step3
    \/ verify_email_quit
    \/ verify_email_close

Spec == Init /\ [][Next]_vars

(***************************************************************************)
(* The helpers on their own: rcpt_once, multi_probe and mx_brand_from_host *)
(* called with arguments from wider sets than a whole verification can     *)
(* afford.  fn holds the call: its arguments, then its result.             *)
(***************************************************************************)
\* What srv.rcpt can return as code: smtplib parses three digits, and gives
\* -1 for a reply line it cannot parse.
AllReplyCodes == {-1} \cup (0..999)

\* Latencies rcpt_once returns (tenths of a millisecond).
ProbeLatencies == {1, 2, 5}

\* Hostnames for the classifier: each word alone, pairs of words of
\* different rules, upper and mixed case, no word, the empty string, None.
BrandHosts ==
    { Host_google, Host_plain, None, <<>>,
      Str_google, Str_outlook, Str_protection, Str_proofpoint, Str_mimecast,
      Str_zoho,
      <<"Z","o","H","o",".","e","u">>,
      <<"m","x",".">> \o Str_zoho \o <<".">> \o Str_google,
      Str_outlook \o <<".">> \o Str_aspmx,
      Str_proofpoint \o <<"-">> \o Str_protection,
      Str_mimecast \o <<".">> \o Str_proofpoint,
      Str_zoho \o <<".">> \o Str_mimecast,
      <<"P","R","O","T","E","C","T","I","O","N",".">> \o Str_zoho }

\* multi_probe(srv, addr, n) given what its rcpt_once calls return: the
\* possible (accepted_any, mean_lat).
multi_probe(rs) ==
    LET accs == [i \in DOMAIN rs |-> rs[i].accepted]
        lats == [i \in DOMAIN rs |-> rs[i].latency]
    IN  { [accepted_any |-> AnyTrue(accs), mean_lat |-> m] :
            m \in Round1(SumSeq(lats), Len(lats)) }

FnCall(name, args) == [name |-> name, args |-> args, ret |-> <<>>, done |-> FALSE]

FnCalls ==
    { FnCall("rcpt_once", [code |-> c, raw |-> l]) :
        c \in AllReplyCodes, l \in RawLatencies }
    \cup
    UNION { { FnCall("multi_probe", [n |-> n, rs |-> rs]) :
                rs \in [1..LoopTurns(n) ->
                          {rcpt_once(c, l) : c \in ReplyCodes, l \in ProbeLatencies}] } :
            n \in 0..MaxRepeats }
    \cup
    { FnCall("mx_brand_from_host", h) : h \in BrandHosts }

FnInit ==
    /\ DEFAULT_REPEATS \in DefaultRepeatsValues
    /\ route = "none"
    /\ emails = <<>>
    /\ repeats = NoRepeats
    /\ idx = 0
    /\ out = <<>>
    /\ response = [status |-> 0, body |-> <<>>]
    /\ vpc = "none"
    /\ fr = NoFrame
    /\ mp = NoProbe
    /\ sock = "none"
    /\ openSockets = 0
    /\ outcome = NoOutcome
    /\ net = <<>>
    /\ fn \in FnCalls

FnReturn(ret) ==
    /\ fn' = [fn EXCEPT !.ret = ret, !.done = TRUE]
    /\ UNCHANGED <<DEFAULT_REPEATS, route, emails, repeats, idx, out, response,
                   vpc, fr, mp, sock, openSockets, outcome, net>>

fn_rcpt_once ==
    /\ fn.name = "rcpt_once" /\ ~fn.done
    /\ \E lat \in Round1(fn.args.raw, 10) :
         FnReturn(rcpt_once(fn.args.code, lat))

fn_multi_probe ==
    /\ fn.name = "multi_probe" /\ ~fn.done
    /\ \E r \in multi_probe(fn.args.rs) : FnReturn(r)

fn_mx_brand_from_host ==
    /\ fn.name = "mx_brand_from_host" /\ ~fn.done
    /\ FnReturn(mx_brand_from_host(fn.args))

FnNext ==
    \/ fn_rcpt_once
    \/ fn_multi_probe
    \/ fn_mx_brand_from_host

FnSpec == FnInit /\ [][FnNext]_vars

(***************************************************************************)
(* Properties                                                              *)
(***************************************************************************)
\* verify_email has finished: it returned or raised.
Finished == vpc \in {"done", "returned"}

\* _smtp_open handed out a session: a MAIL command came back with a reply.
SessionOpened ==
    \E i \in DOMAIN net : net[i].op = "MAIL" /\ net[i].reply # "disconnect"

\* A recipient check raised.
RcptRaised ==
    \E i \in DOMAIN net : net[i].op = "RCPT" /\ net[i].reply \in {"disconnect", "error"}

\* The RCPT commands of this verification, in order.
Rcpts == SelectSeq(net, LAMBDA e : e.op = "RCPT")

Mirror(r) ==
    /\ r.result \in {"valid", "invalid"}
    /\ r.deliverability \in {"deliverable", "undeliverable"}
    /\ (r.deliverability = "deliverable") <=> (r.result = "valid")

\* C1: verify_email never raises: it always finishes by returning a
\* well-formed result, and when a recipient check raised during the open
\* session that result is invalid/undeliverable, catch-all false, with the
\* domain, mx_host and mx_brand already resolved.
C1_NeverRaises ==
    Finished =>
        /\ outcome.kind = "return"
        /\ Mirror(outcome.val)
        /\ RcptRaised =>
             outcome.val = Failure(fr.email, fr.domain, fr.mx, fr.brand)

\* C2: once the session is open, every way verify_email ends has called
\* srv.quit(), has called srv.close() next when quit raised, and nothing is
\* done on the session after quit but that close: no RCPT follows teardown.
C2_TeardownOnEveryExit ==
    /\ (Finished /\ SessionOpened) =>
          \E q \in DOMAIN net :
             /\ net[q].op = "QUIT"
             /\ net[q].reply = "disconnect" =>
                  (q < Len(net) /\ net[q + 1].op = "CLOSE")
    /\ \A i \in DOMAIN net :
          /\ net[i].op = "QUIT" => \A j \in (i + 1)..Len(net) : net[j].op = "CLOSE"
          /\ net[i].op = "CLOSE" => i = Len(net)

\* C2 witness: a probe raised, quit raised as well, close was called.
C2_Witness ==
    /\ vpc = "done"
    /\ outcome.kind = "raise"
    /\ \E q \in DOMAIN net :
          /\ net[q].op = "QUIT" /\ net[q].reply = "disconnect"
          /\ q < Len(net) /\ net[q + 1].op = "CLOSE"

\* C3: a result of verify_email has catch-all true exactly when the target
\* probe and the first fake probe were both accepted; on every other path
\* it is false.
C3_CatchAllOnlyWhenBothAccepted ==
    outcome.kind = "return" =>
        (outcome.val.catch_all <=> (fr.T_acc /\ fr.F1_acc))

C3_Witness ==
    /\ vpc = "done"
    /\ outcome.kind = "return"
    /\ outcome.val.catch_all
    /\ fr.T_acc /\ fr.F1_acc

\* C4: in every result (returned by verify_email, appended to out by the
\* bulk routes, fallback results included, and sent in a response)
\* deliverability is "deliverable" exactly when result is "valid".
C4_DeliverableIffValid ==
    /\ outcome.kind = "return" => Mirror(outcome.val)
    /\ \A i \in DOMAIN out : Mirror(out[i])
    /\ \A i \in DOMAIN response.body : Mirror(response.body[i])

\* C4 witness: a bulk response with a valid result and the fallback result of
\* a verification that raised.
C4_Witness ==
    /\ route = "/bulk"
    /\ response.status = 200
    /\ Len(response.body) = 2
    /\ response.body[1].result = "valid"
    /\ outcome.kind = "raise"
    /\ response.body[2] = Failure(Email_ok2, None, None, None)

C6_Fake1Rejected ==
    (outcome.kind = "return" /\ fr.T_acc /\ ~fr.F1_acc) =>
        /\ outcome.val = VerifyResponse(fr.email, fr.domain, fr.mx, fr.brand,
                                        "valid", FALSE, "deliverable")
        /\ fr.F2 = None
        /\ Len(Rcpts) = 2 * Max(1, fr.reps)
        /\ \A k \in DOMAIN Rcpts : Rcpts[k].arg \in {fr.email, fr.F1}

\* C6 witness: fake 1 rejected on a google host with equal mean latencies
\* (the timing rule would have said invalid).
C6_Witness ==
    /\ vpc = "done"
    /\ outcome.kind = "return"
    /\ fr.T_acc /\ ~fr.F1_acc
    /\ fr.T_mean = fr.F1_mean
    /\ fr.brand = Str_google

\* C7: one verification opens at most one connection and issues at most
\* 3 * max(1, N) RCPT commands, the first max(1, N) to the target, the next
\* to fake 1 and only after the target was accepted, the last to fake 2 and
\* only after fake 1 was accepted.
C7_OneSessionThreeProbes ==
    LET M == Max(1, fr.reps)
    IN  /\ Cardinality({i \in DOMAIN net : net[i].op = "CONNECT"}) <= 1
        /\ Len(Rcpts) <= 3 * M
        /\ \A k \in DOMAIN Rcpts :
              Rcpts[k].arg = IF k <= M THEN fr.email
                             ELSE IF k <= 2 * M THEN fr.F1 ELSE fr.F2
        /\ Len(Rcpts) > M => fr.T_acc
        /\ Len(Rcpts) > 2 * M => fr.F1_acc

\* C7 witness: all three probes ran with two repeats each.
C7_Witness ==
    /\ vpc = "done"
    /\ fr.reps = 2
    /\ Len(Rcpts) = 6

\* C8: a rejected MAIL FROM:<> is followed by exactly one retry with the
\* placeholder sender, and when both are rejected no RCPT is issued and the
\* verification ends invalid/undeliverable with the mx fields.
C8_MailRetry ==
    \A i \in DOMAIN net :
        (net[i].op = "MAIL" /\ net[i].arg = Sender_empty
                            /\ net[i].reply = "rejected") =>
            /\ IF i = Len(net) THEN vpc = "mail2"
               ELSE net[i + 1].op = "MAIL" /\ net[i + 1].arg = Sender_placeholder
            /\ (i < Len(net) /\ net[i + 1].reply = "rejected") =>
                  /\ Rcpts = <<>>
                  /\ Finished =>
                       outcome = Returns(Failure(fr.email, fr.domain,
                                                 fr.mx, fr.brand))

\* C9: for an address without '@' verify_email returns invalid/undeliverable
\* with domain, mx_host and mx_brand absent and catch-all false, and makes no
\* DNS query and opens no SMTP connection.
C9_NoAtNoNetwork ==
    ~Contains(fr.email, <<"@">>) =>
        /\ net = <<>>
        /\ sock = "none"
        /\ Finished => outcome = Returns(Failure(fr.email, None, None, None))

C9_Witness ==
    /\ vpc = "done"
    /\ fr.email = Email_noat
    /\ outcome.kind = "return"

\* C10: when MX resolution fails, verify_email returns invalid/undeliverable
\* with the domain present and mx_host, mx_brand absent, catch-all false; it
\* does not raise and nothing but the DNS query touches the network.
C10_NoMx ==
    (net # <<>> /\ net[1].op = "DNS" /\ net[1].reply = "error") =>
        /\ Len(net) = 1
        /\ sock = "none"
        /\ Finished
        /\ fr.domain # None
        /\ outcome = Returns(Failure(fr.email, fr.domain, None, None))

C10_Witness ==
    /\ vpc = "done"
    /\ net = <<Ev("DNS", <<"d",".","i","o">>, "error")>>
    /\ outcome.kind = "return"

\* _smtp_open raised: the connection attempt failed, the greeting raised, or
\* both sender commands raised.
OpenRaised ==
    \E i \in DOMAIN net :
        \/ net[i].op = "CONNECT" /\ net[i].reply = "fail"
        \/ net[i].op = "EHLO" /\ net[i].reply = "disconnect"
        \/ net[i].op = "MAIL" /\ net[i].arg = Sender_placeholder
                              /\ net[i].reply = "disconnect"

\* C11: when opening the session against the first MX host fails,
\* verify_email returns invalid/undeliverable with domain, mx_host and
\* mx_brand set and catch-all false; no RCPT is issued and there is exactly
\* one connection attempt, to the first host of the list: no retry, no other
\* host, and nothing on the network after the command that failed.
C11_OpenFailureIsTerminal ==
    OpenRaised =>
        /\ Finished
        /\ outcome = Returns(Failure(fr.email, fr.domain, fr.mx, fr.brand))
        /\ fr.domain # None /\ fr.mx # None /\ fr.brand # None
        /\ fr.mx = fr.mx_list[1]
        /\ Rcpts = <<>>
        /\ \A i \in DOMAIN net :
              /\ net[i].op = "CONNECT" => (i = 2 /\ net[i].arg = fr.mx_list[1])
              /\ net[i].op \notin {"QUIT", "CLOSE", "SLEEP"}
        /\ net[Len(net)].reply \in {"fail", "disconnect"}

\* C11 witness: two MX hosts were resolved and the connection to the first
\* one failed.
C11_Witness ==
    /\ vpc = "done"
    /\ Len(fr.mx_list) = 2
    /\ Len(net) = 2
    /\ net[2] = Ev("CONNECT", fr.mx_list[1], "fail")
    /\ outcome.val.mx_host = fr.mx_list[1]

\* C12: a recipient check is accepted exactly when its reply code is in
\* 200..299 or is 451 or 452; every other code, 450 and the other 4xx and
\* all 5xx included, is not accepted.
C12_AcceptedCodes ==
    (fn.name = "rcpt_once" /\ fn.done) =>
        /\ fn.ret.code = fn.args.code
        /\ fn.ret.accepted <=>
              (fn.args.code \in (200..299) \cup {451, 452})
        /\ fn.args.code \in {199, 300, 450, 453, 550, 552, -1} => ~fn.ret.accepted

\* C12 witness: the temporary failure 452 was accepted.
C12_Witness ==
    /\ fn.name = "rcpt_once" /\ fn.done
    /\ fn.args.code = 452
    /\ fn.ret.accepted

\* C13: a probe with repeat count N that runs to its end has issued exactly
\* max(1, N) RCPT commands, all for its address and on the one session, N
\* being the override clamped to at least 1 or else the configured default,
\* and the acceptedAny it hands to verify_email is the OR of the outcomes of
\* all these commands.
C13_RepeatsAndOr ==
    [][ (vpc \in {"target", "fake1", "fake2"} /\ vpc' # vpc
                                               /\ outcome'.kind # "raise") =>
          LET N == IF fr.repeats.given THEN Max(1, fr.repeats.val)
                   ELSE DEFAULT_REPEATS
              M == IF N < 1 THEN 1 ELSE N
              k == IF vpc = "target" THEN 1 ELSE IF vpc = "fake1" THEN 2 ELSE 3
              acc == IF vpc = "target" THEN fr'.T_acc
                     ELSE IF vpc = "fake1" THEN fr'.F1_acc ELSE fr'.F2_acc
          IN  /\ Len(Rcpts) = k * M
              /\ \A j \in ((k - 1) * M + 1)..(k * M) :
                    Rcpts[j].arg = mp.addr /\ Rcpts[j].reply = "reply"
              /\ Len(mp.accs) = M
              /\ Cardinality({i \in DOMAIN net : net[i].op = "CONNECT"}) = 1
              /\ acc <=> (\E i \in 1..M : mp.accs[i])
      ]_vars

\* C13 witness: the default count is 0 and no override is given; the target
\* probe ended after one RCPT and the first fake probe has made its one RCPT.
C13_Witness ==
    /\ DEFAULT_REPEATS = 0
    /\ ~fr.repeats.given
    /\ vpc = "fake1"
    /\ fr.T_acc
    /\ Len(Rcpts) = 2
    /\ Len(mp.accs) = 1

BulkRoutes == {"/bulk", "/bulk/csv"}

\* C14: in /bulk and /bulk/csv every address of the list gets exactly one
\* result, in input order: each verification that ends, by returning or by
\* raising, appends one result for its address (what verify_email returned,
\* or invalid/undeliverable with catch-all false when it raised), after
\* which the next address is verified, or, after the last one, the whole
\* list is the response.
C14_BulkNeverAborts ==
    [][ (route \in BulkRoutes /\ vpc = "done") =>
          /\ Len(out) = idx - 1
          /\ Len(out') = idx
          /\ \A i \in 1..(idx - 1) : out'[i] = out[i]
          /\ out'[idx].email = emails[idx]
          /\ outcome.kind = "return" => out'[idx] = outcome.val
          /\ outcome.kind = "raise" =>
                /\ out'[idx].result = "invalid"
                /\ out'[idx].deliverability = "undeliverable"
                /\ out'[idx].catch_all = FALSE
          /\ IF idx < Len(emails)
             THEN /\ vpc' = "get_domain"
                  /\ idx' = idx + 1
                  /\ fr'.email = emails[idx + 1]
                  /\ response'.status = 0
             ELSE /\ response' = [status |-> 200, body |-> out']
                  /\ Len(out') = Len(emails)
      ]_vars

\* C14 witness: the first of two addresses raised and got the fallback
\* result, the second was verified and found valid; both are in the response.
C14_Witness ==
    /\ route = "/bulk"
    /\ response.status = 200
    /\ emails = <<Email_ok, Email_ok2>>
    /\ Len(response.body) = 2
    /\ response.body[1] = Failure(Email_ok, None, None, None)
    /\ response.body[2].email = Email_ok2
    /\ response.body[2].result = "valid"

\* The number of RCPT commands among the first i network calls.
RcptsUpTo(i) == Cardinality({j \in 1..i : net[j].op = "RCPT"})

\* C15: the jitter delay comes only between two repeats of a probe: with
\* one repeat there is no delay, and with N > 1 no delay follows the last
\* (the N-th) RCPT of a probe, so a probe has N - 1 delays.
C15_JitterOnlyBetweenRepeats ==
    LET M == Max(1, fr.reps)
    IN  \A i \in DOMAIN net :
            net[i].op = "SLEEP" => (M > 1 /\ RcptsUpTo(i) % M # 0)

\* The latencies of the repeats of the multi_probe call in fn.
FnLats == [i \in DOMAIN fn.args.rs |-> fn.args.rs[i].latency]

\* C16 as claimed: the mean latency multi_probe returns is the arithmetic
\* mean of the latencies of its repeats, for every sequence of latencies in
\* tenths of a millisecond.
C16_MeanIsArithmeticMean ==
    (fn.name = "multi_probe" /\ fn.done) =>
        fn.ret.mean_lat * Len(FnLats) = SumSeq(FnLats)

\* C16 as amended: the mean latency multi_probe returns is the arithmetic
\* mean of the latencies of its repeats rounded to a tenth of a millisecond:
\* it is a whole number of tenths at most half a tenth away from the mean,
\* equal to the mean when that is a whole number of tenths, and for one
\* repeat it is the single latency.
C16_MeanRoundedToTenth ==
    (fn.name = "multi_probe" /\ fn.done) =>
        LET len == Len(FnLats)
            sum == SumSeq(FnLats)
        IN  /\ len = Max(1, fn.args.n)
            /\ fn.ret.mean_lat \in Nat
            /\ 2 * Abs(fn.ret.mean_lat * len - sum) <= len
            /\ sum % len = 0 => fn.ret.mean_lat * len = sum
            /\ len = 1 => fn.ret.mean_lat = FnLats[1]

\* C16 witness: two repeats of 0.1 ms and 0.2 ms, whose mean 0.15 ms is not
\* a whole number of tenths.
C16_Witness ==
    /\ fn.name = "multi_probe" /\ fn.done
    /\ FnLats = <<1, 2>>
    /\ fn.ret.mean_lat \in {1, 2}

\* The address has an '@' and nothing before its first or after its last one.
EmptyPart(email) ==
    /\ Contains(email, <<"@">>)
    /\ (Head(email) = "@" \/ email[Len(email)] = "@")

\* C17: an address with an '@' but an empty local part or an empty domain
\* part ('user@', '@example.com') is a parse failure: verify_email returns
\* invalid/undeliverable with domain, mx_host and mx_brand absent, and makes
\* no DNS query and no connection.
C17_EmptyPartIsParseFailure ==
    (fr.email # None /\ EmptyPart(fr.email)) =>
        /\ net = <<>>
        /\ sock = "none"
        /\ Finished => outcome = Returns(Failure(fr.email, None, None, None))

\* C18: /bulk and /bulk/csv verify one address at a time, each on a session
\* of its own: at most one session is open, and it is the one of the
\* verification under way; no session is open when a verification starts,
\* resolves or connects, nor when it has ended; the results of all earlier
\* addresses are in out before the next one starts; and every RCPT goes
\* over the connection this verification made, for its own addresses.
C18_OneAddressAtATime ==
    /\ openSockets = (IF sock = "open" THEN 1 ELSE 0)
    /\ vpc \in {"none", "get_domain", "resolve_mx", "connect", "done", "returned"}
          => openSockets = 0
    /\ (route \in BulkRoutes /\ vpc \notin {"none", "returned"}) =>
          /\ Len(out) = idx - 1
          /\ fr.email = emails[idx]
          /\ \A i \in DOMAIN out : out[i].email = emails[i]
    /\ \A i \in DOMAIN net :
          net[i].op = "RCPT" =>
             /\ net[i].arg \in {fr.email, fr.F1, fr.F2}
             /\ net[2] = Ev("CONNECT", fr.mx, "ok")
             /\ \A j \in 1..(i - 1) : net[j].op \notin {"QUIT", "CLOSE"}

\* C18 witness: the second address of a bulk request is being probed on its
\* open session after the first one was probed on a session of its own.
C18_Witness ==
    /\ route = "/bulk"
    /\ idx = 2
    /\ vpc = "fake1"
    /\ sock = "open"
    /\ Len(out) = 1
    /\ out[1].mx_host # None
    /\ Len(Rcpts) = 1

\* C20: every connection that session establishment opened is closed by
\* the time verify_email ends; in particular when the connection was made
\* and the greeting or both sender commands then failed, it is closed before
\* the invalid/undeliverable result is returned.
C20_NoConnectionLeftOpen ==
    /\ Finished => (sock # "open" /\ openSockets = 0)
    /\ (OpenRaised /\ net[2].reply = "ok") =>
          /\ sock = "closed"
          /\ openSockets = 0
          /\ outcome = Returns(Failure(fr.email, fr.domain, fr.mx, fr.brand))

\* C20 witness: connected, the first sender command raised and so did the
\* second; the result is returned with the socket closed.
C20_Witness ==
    /\ vpc = "done"
    /\ Len(net) = 5
    /\ net[2].op = "CONNECT" /\ net[2].reply = "ok"
    /\ net[5] = Ev("MAIL", Sender_placeholder, "disconnect")
    /\ sock = "closed"
    /\ outcome.kind = "return"

\* The rule table of the classifier as the spec gives it, first match wins.
BrandRules ==
    << [word |-> Str_aspmx, tag |-> Str_google],
       [word |-> Str_google, tag |-> Str_google],
       [word |-> Str_outlook, tag |-> Str_microsoft],
       [word |-> Str_protection, tag |-> Str_microsoft],
       [word |-> Str_proofpoint, tag |-> Str_proofpoint],
       [word |-> Str_mimecast, tag |-> Str_mimecast],
       [word |-> Str_zoho, tag |-> Str_zoho] >>

BrandTags ==
    {Str_google, Str_microsoft, Str_proofpoint, Str_mimecast, Str_zoho, Str_other}

\* The rules a hostname matches, whatever its case.
MatchingRules(host) ==
    {i \in DOMAIN BrandRules :
        \E k \in 0..(Len(host) - Len(BrandRules[i].word)) :
            \A j \in 1..Len(BrandRules[i].word) :
                LowerChar(host[k + j]) = BrandRules[i].word[j]}

\* C19: the classifier answers for every hostname with one of the six tags:
\* the tag of the earliest rule the hostname matches in the order google
\* (aspmx, google), microsoft (outlook, protection), proofpoint, mimecast,
\* zoho, whatever the case of the hostname, and other when no rule matches.
C19_FirstMatchWins ==
    (fn.name = "mx_brand_from_host" /\ fn.done) =>
        LET host == IF fn.args = None THEN <<>> ELSE fn.args
            hits == MatchingRules(host)
        IN  /\ fn.ret \in BrandTags
            /\ hits = {} => fn.ret = Str_other
            /\ hits # {} =>
                  \E i \in hits : /\ \A j \in hits : i <= j
                                  /\ fn.ret = BrandRules[i].tag

\* C19 witness: a hostname with both zoho and google in it is google.
C19_Witness ==
    /\ fn.name = "mx_brand_from_host" /\ fn.done
    /\ MatchingRules(fn.args) = {2, 7}
    /\ fn.ret = Str_google

\* C19, in the results of verify_email (specification Spec): mx_brand is the
\* classifier's tag of mx_host, one of the six, when mx_host is present, and
\* absent when mx_host is absent.
C19_ResultBrand ==
    LET Tagged(r) ==
            IF r.mx_host = None THEN r.mx_brand = None
            ELSE r.mx_brand = mx_brand_from_host(r.mx_host)
                 /\ r.mx_brand \in BrandTags
    IN  /\ outcome.kind = "return" => Tagged(outcome.val)
        /\ \A i \in DOMAIN out : Tagged(out[i])

=============================================================================
